---- MODULE Spec2Model ----
(***************************************************************************)
(* Tracelink API client (src/src/tracelink-client.js, CommonJS build, and  *)
(* src/unnamed/part_000, ESM build).                                       *)
(*                                                                         *)
(* The client composes a URL, headers and a JSON body from its arguments,  *)
(* issues one fetch() POST, decodes the response envelope, annotates it    *)
(* from the X-ResultFromCache response header and throws a TracelinkError  *)
(* when the envelope's status is 'error'.                                  *)
(*                                                                         *)
(* JavaScript values are modelled as tagged records so that truthiness,    *)
(* property insertion order, template-literal conversion and               *)
(* JSON.stringify are computed the way the engine computes them.           *)
(***************************************************************************)
EXTENDS Integers, Sequences, FiniteSets, TLC

VARIABLES
    build,      \* which file is loaded: "cjs" (tracelink-client.js) or "esm" (part_000)
    config,     \* the argument given to new TracelinkClient(config)
    ctor,       \* "new" before construction, then "ok" or "thrown"
    client,     \* the constructed object's fields (Undefined until constructed)
    calls,      \* per call slot: position in the facade/request() code and its locals
    fetched,    \* log of fetch() invocations, in order
    options,    \* argument of a direct buildOrderParams(options) evaluation
    params      \* its result (Pending until evaluated)

vars == <<build, config, ctor, client, calls, fetched, options, params>>

-----------------------------------------------------------------------------
(* JavaScript values *)

Undefined == [t |-> "undefined"]
Null      == [t |-> "null"]
Str(s)    == [t |-> "string", s |-> s]
Num(n)    == [t |-> "number", n |-> n]
Bool(b)   == [t |-> "boolean", b |-> b]
Arr(a)    == [t |-> "array", a |-> a]
\* an object is the sequence of its own properties in insertion order
Obj(o)    == [t |-> "object", o |-> o]
Prop(k, v) == [k |-> k, v |-> v]
EmptyObj  == Obj(<<>>)

\* ToBoolean, as applied by `if (x)`, `!x` and `x || y`
Truthy(v) ==
    CASE v.t = "undefined" -> FALSE
      [] v.t = "null"      -> FALSE
      [] v.t = "boolean"   -> v.b
      [] v.t = "number"    -> v.n # 0
      [] v.t = "string"    -> v.s # ""
      [] OTHER             -> TRUE

\* x || y
OrElse(x, y) == IF Truthy(x) THEN x ELSE y

\* a parameter default (`body = {}`): applies to undefined only
Default(x, d) == IF x = Undefined THEN d ELSE x

HasKey(v, k) == v.t = "object" /\ \E i \in 1..Len(v.o) : v.o[i].k = k

\* v.k (undefined for a missing property)
Get(v, k) ==
    IF HasKey(v, k)
    THEN v.o[CHOOSE i \in 1..Len(v.o) : v.o[i].k = k].v
    ELSE Undefined

\* v?.k
OptGet(v, k) == IF v.t \in {"undefined", "null"} THEN Undefined ELSE Get(v, k)

\* v.k = x : an existing property keeps its position, a new one is appended
SetProp(v, k, x) ==
    IF HasKey(v, k)
    THEN Obj([i \in 1..Len(v.o) |-> IF v.o[i].k = k THEN Prop(k, x) ELSE v.o[i]])
    ELSE Obj(Append(v.o, Prop(k, x)))

\* { ...target, ...src } : own properties of src assigned in order
RECURSIVE SpreadFrom(_, _, _)
SpreadFrom(target, src, i) ==
    IF i > Len(src.o) THEN target
    ELSE SpreadFrom(SetProp(target, src.o[i].k, src.o[i].v), src, i + 1)

Spread(target, src) ==
    IF src.t = "object" THEN SpreadFrom(target, src, 1) ELSE target

Keys(v) == [i \in 1..Len(v.o) |-> v.o[i].k]

\* String(x), as used by template literals and Array.prototype.join
ToStr(v) ==
    CASE v.t = "string"    -> v.s
      [] v.t = "number"    -> ToString(v.n)
      [] v.t = "boolean"   -> IF v.b THEN "true" ELSE "false"
      [] v.t = "undefined" -> "undefined"
      [] v.t = "null"      -> "null"
      [] OTHER             -> "[object Object]"

\* Array.prototype.join(sep): null and undefined elements give ''
RECURSIVE JoinFrom(_, _, _)
JoinFrom(a, sep, i) ==
    IF i > Len(a) THEN ""
    ELSE (IF a[i].t \in {"undefined", "null"} THEN "" ELSE ToStr(a[i]))
         \o (IF i < Len(a) THEN sep \o JoinFrom(a, sep, i + 1) ELSE "")

Join(v, sep) == JoinFrom(v.a, sep, 1)

\* JSON.stringify: properties in insertion order, undefined-valued ones dropped
RECURSIVE JSONstringify(_)
RECURSIVE JSONmembers(_, _, _)
RECURSIVE JSONelements(_, _)
JSONmembers(o, i, first) ==
    IF i > Len(o) THEN ""
    ELSE IF o[i].v.t = "undefined" THEN JSONmembers(o, i + 1, first)
    ELSE (IF first THEN "" ELSE ",")
         \o "\"" \o o[i].k \o "\":" \o JSONstringify(o[i].v)
         \o JSONmembers(o, i + 1, FALSE)
JSONelements(a, i) ==
    IF i > Len(a) THEN ""
    ELSE (IF a[i].t = "undefined" THEN "null" ELSE JSONstringify(a[i]))
         \o (IF i < Len(a) THEN "," ELSE "")
         \o JSONelements(a, i + 1)
JSONstringify(v) ==
    CASE v.t = "string"  -> "\"" \o v.s \o "\""
      [] v.t = "number"  -> ToString(v.n)
      [] v.t = "boolean" -> IF v.b THEN "true" ELSE "false"
      [] v.t = "null"    -> "null"
      [] v.t = "array"   -> "[" \o JSONelements(v.a, 1) \o "]"
      [] v.t = "object"  -> "{" \o JSONmembers(v.o, 1, TRUE) \o "}"

-----------------------------------------------------------------------------
(* buildOrderParams *)

\* mutant of SortValue: the array is passed on without being joined
SortValue_Unjoined(sort) == sort

\* order.sort = Array.isArray(options.sort) ? options.sort.join(',') : options.sort
SortValue(sort) == IF sort.t = "array" THEN Str(Join(sort, ",")) ELSE sort

\* mutant of IsDefined: a truthiness test, which treats 0 as absent
IsDefined_Truthy(v) == Truthy(v)

\* if (options.limit !== undefined) / if (options.page !== undefined)
IsDefined(v) == v # Undefined

\* mutant of OrderOf: reverse and filter_or are copied as given when defined
OrderOf_FlagsVerbatim(opts) ==
    LET o0 == EmptyObj
        o1 == IF Truthy(Get(opts, "sort"))
              THEN SetProp(o0, "sort", SortValue(Get(opts, "sort"))) ELSE o0
        o2 == IF IsDefined(Get(opts, "reverse"))
              THEN SetProp(o1, "reverse", Get(opts, "reverse")) ELSE o1
        o3 == IF IsDefined(Get(opts, "limit"))
              THEN SetProp(o2, "limit", Get(opts, "limit")) ELSE o2
        o4 == IF IsDefined(Get(opts, "page"))
              THEN SetProp(o3, "page", Get(opts, "page")) ELSE o3
        o5 == IF Truthy(Get(opts, "filter"))
              THEN SetProp(o4, "filter", Get(opts, "filter")) ELSE o4
        o6 == IF IsDefined(Get(opts, "filter_or"))
              THEN SetProp(o5, "filter_or", Get(opts, "filter_or")) ELSE o5
    IN  o6

\* mutant of OrderOf: a filter without conditions is left out
OrderOf_FilterNonEmpty(opts) ==
    LET o0 == EmptyObj
        o1 == IF Truthy(Get(opts, "sort"))
              THEN SetProp(o0, "sort", SortValue(Get(opts, "sort"))) ELSE o0
        o2 == IF Truthy(Get(opts, "reverse"))
              THEN SetProp(o1, "reverse", Num(1)) ELSE o1
        o3 == IF IsDefined(Get(opts, "limit"))
              THEN SetProp(o2, "limit", Get(opts, "limit")) ELSE o2
        o4 == IF IsDefined(Get(opts, "page"))
              THEN SetProp(o3, "page", Get(opts, "page")) ELSE o3
        o5 == IF Truthy(Get(opts, "filter")) /\ Len(Keys(Get(opts, "filter"))) > 0
              THEN SetProp(o4, "filter", Get(opts, "filter")) ELSE o4
        o6 == IF Truthy(Get(opts, "filter_or"))
              THEN SetProp(o5, "filter_or", Bool(TRUE)) ELSE o5
    IN  o6

OrderOf(opts) ==
    LET o0 == EmptyObj
        o1 == IF Truthy(Get(opts, "sort"))
              THEN SetProp(o0, "sort", SortValue(Get(opts, "sort"))) ELSE o0
        o2 == IF Truthy(Get(opts, "reverse"))
              THEN SetProp(o1, "reverse", Num(1)) ELSE o1
        o3 == IF IsDefined(Get(opts, "limit"))
              THEN SetProp(o2, "limit", Get(opts, "limit")) ELSE o2
        o4 == IF IsDefined(Get(opts, "page"))
              THEN SetProp(o3, "page", Get(opts, "page")) ELSE o3
        o5 == IF Truthy(Get(opts, "filter"))
              THEN SetProp(o4, "filter", Get(opts, "filter")) ELSE o4
        o6 == IF Truthy(Get(opts, "filter_or"))
              THEN SetProp(o5, "filter_or", Bool(TRUE)) ELSE o5
    IN  o6

\* mutant of WrapOrder: the wrapper is always returned
WrapOrder_Always(order) == Obj(<<Prop("order", order)>>)

\* return Object.keys(order).length > 0 ? { order } : {}
WrapOrder(order) ==
    IF Len(Keys(order)) > 0 THEN Obj(<<Prop("order", order)>>) ELSE EmptyObj

buildOrderParams(opts) == WrapOrder(OrderOf(Default(opts, EmptyObj)))

-----------------------------------------------------------------------------
(* TracelinkClient: constructor and request() *)

BASE_URL == "https://tracelink.app/rest"

\* mutant of TracelinkClient: the defaults apply to missing fields only
TracelinkClient_DefaultMissing(cfg) ==
    IF ~Truthy(OptGet(cfg, "access_token"))
    THEN [threw |-> TRUE, error |-> "access_token is required", this |-> Undefined]
    ELSE [threw |-> FALSE, error |-> "",
          this  |-> [access_token |-> Get(cfg, "access_token"),
                     format       |-> Default(Get(cfg, "format"), Str("json")),
                     charset      |-> Default(Get(cfg, "charset"), Str("UTF-8"))]]

\* mutant of TracelinkClient: only a missing token is rejected, an empty one
\* is accepted
TracelinkClient_TokenPresent(cfg) ==
    IF OptGet(cfg, "access_token") = Undefined
    THEN [threw |-> TRUE, error |-> "access_token is required", this |-> Undefined]
    ELSE [threw |-> FALSE, error |-> "",
          this  |-> [access_token |-> Get(cfg, "access_token"),
                     format       |-> OrElse(Get(cfg, "format"), Str("json")),
                     charset      |-> OrElse(Get(cfg, "charset"), Str("UTF-8"))]]

\* new TracelinkClient(config): throws, or yields the object's fields
TracelinkClient(cfg) ==
    IF ~Truthy(OptGet(cfg, "access_token"))
    THEN [threw |-> TRUE, error |-> "access_token is required", this |-> Undefined]
    ELSE [threw |-> FALSE, error |-> "",
          this  |-> [access_token |-> Get(cfg, "access_token"),
                     format       |-> OrElse(Get(cfg, "format"), Str("json")),
                     charset      |-> OrElse(Get(cfg, "charset"), Str("UTF-8"))]]

\* 'Accept': this.format === 'xml' ? 'application/xml' : 'application/json'
AcceptOf(this) ==
    IF this.format = Str("xml") THEN Str("application/xml") ELSE Str("application/json")

\* mutant of WithCharset: the header is set for every non-default charset
WithCharset_NonDefault(headers, this) ==
    IF this.charset # Str("UTF-8")
    THEN SetProp(headers, "X-Charset", Str("CP850")) ELSE headers

\* if (this.charset === 'CP850') headers['X-Charset'] = 'CP850'
WithCharset(headers, this) ==
    IF this.charset = Str("CP850")
    THEN SetProp(headers, "X-Charset", Str("CP850")) ELSE headers

\* mutant of WithIdempotencyKey: the header is set whenever the option exists
WithIdempotencyKey_Defined(headers, opts) ==
    IF Get(opts, "idempotency_key") # Undefined
    THEN SetProp(headers, "Idempotency-Key", Get(opts, "idempotency_key")) ELSE headers

\* if (options.idempotency_key) headers['Idempotency-Key'] = options.idempotency_key
WithIdempotencyKey(headers, opts) ==
    IF Truthy(Get(opts, "idempotency_key"))
    THEN SetProp(headers, "Idempotency-Key", Get(opts, "idempotency_key")) ELSE headers

HeadersOf(this, opts) ==
    WithIdempotencyKey(
        WithCharset(
            Obj(<<Prop("x-access-token", this.access_token),
                  Prop("Content-Type", Str("application/json")),
                  Prop("Accept", AcceptOf(this))>>),
            this),
        opts)

\* mutant of BodyOf: the body is left empty when the format is xml
BodyOf_ByFormat(this, body) ==
    IF this.format = Str("xml") THEN "" ELSE JSONstringify(body)

\* body: JSON.stringify(body)
BodyOf(this, body) == JSONstringify(body)

\* mutant of FetchArgs: each request is stamped with its position in the log
FetchArgs_Sequenced(this, endpoint, body, opts) ==
    [method  |-> "POST",
     url     |-> BASE_URL \o endpoint,
     headers |-> SetProp(HeadersOf(this, opts), "X-Request-Seq", Num(Len(fetched))),
     body    |-> BodyOf(this, body)]

\* the arguments of fetch(url, {method, headers, body})
FetchArgs(this, endpoint, body, opts) ==
    [method  |-> "POST",
     url     |-> BASE_URL \o endpoint,
     headers |-> HeadersOf(this, opts),
     body    |-> BodyOf(this, body)]

\* mutant of Annotate: tests `cached_key !== null` instead of truthiness
Annotate_NotNull(data, cached_key) ==
    IF cached_key # Null
    THEN SetProp(SetProp(data, "_cached", Bool(TRUE)), "_idempotency_key", cached_key)
    ELSE data

\* cached_key = response.headers.get('X-ResultFromCache'); if (cached_key) {...}
Annotate(data, cached_key) ==
    IF Truthy(cached_key)
    THEN SetProp(SetProp(data, "_cached", Bool(TRUE)), "_idempotency_key", cached_key)
    ELSE data

\* new TracelinkError(message, code), then error.response = data
TracelinkError(data) ==
    [kind     |-> "TracelinkError",
     message  |-> IF Get(data, "message") = Undefined THEN ""
                  ELSE ToStr(Get(data, "message")),
     code     |-> Get(data, "code"),
     response |-> data]

\* mutant of IsErrorStatus: everything but 'ok' is an error
IsErrorStatus_NotOk(data) == Get(data, "status") # Str("ok")

\* if (data.status === 'error') throw error; return data
IsErrorStatus(data) == Get(data, "status") = Str("error")

Outcome(data) ==
    IF IsErrorStatus(data)
    THEN [pc |-> "thrown", result |-> TracelinkError(data)]
    ELSE [pc |-> "returned", result |-> [kind |-> "value", value |-> data]]

\* mutant of Settle: the status check runs first, so only a returned envelope
\* is annotated
Settle_CheckFirst(data, cached_key) ==
    IF IsErrorStatus(data) THEN Outcome(data)
    ELSE Outcome(Annotate(data, cached_key))

\* request() from `await response.json()` resolving to its return or throw
Settle(data, cached_key) == Outcome(Annotate(data, cached_key))

-----------------------------------------------------------------------------
(* Resource facades: each yields the arguments it passes to request(), or   *)
(* throws before calling it.                                                *)

\* this.client.request(endpoint, body, options), with request()'s defaults
\* `body = {}` and `options = {}` applied to omitted arguments
Req(endpoint, body, opts) ==
    [threw |-> FALSE, error |-> "", endpoint |-> endpoint,
     body |-> Default(body, EmptyObj), opts |-> Default(opts, EmptyObj)]

\* evaluating an undeclared identifier throws before request() is called
Throws(error) ==
    [threw |-> TRUE, error |-> error, endpoint |-> "",
     body |-> Undefined, opts |-> Undefined]

\* the { object: ... } wrapper of create/update bodies
ObjectBody(object) == Obj(<<Prop("object", object)>>)

CompanyClient_get == Req("/company", Undefined, Undefined)

CompanyClient_listDepartments(opts) ==
    Req("/company/dept/list", buildOrderParams(opts), Undefined)

UserClient_get == Req("/user", Undefined, Undefined)

UserClient_list(opts) == Req("/user/list", buildOrderParams(opts), Undefined)

UserClient_listGroups(opts) ==
    Req("/user/group/list", buildOrderParams(opts), Undefined)

OrderClient_create(data, opts) ==
    Req("/tracelink/order/create", ObjectBody(data), Default(opts, EmptyObj))

\* mutant of AutoNumbered: data is spread after the numbering fields
AutoNumbered_DataLast(data, number_begin, number_offset) ==
    Spread(Obj(<<Prop("use_numbering", Num(1)), Prop("number_begin", number_begin),
                 Prop("number_offset", number_offset)>>), data)

\* { ...data, use_numbering: 1, number_begin, number_offset }
AutoNumbered(data, number_begin, number_offset) ==
    SetProp(SetProp(SetProp(Spread(EmptyObj, data),
        "use_numbering", Num(1)),
        "number_begin", number_begin),
        "number_offset", number_offset)

OrderClient_createAutoNumbered(data, number_begin, number_offset, opts) ==
    Req("/tracelink/order/create",
        ObjectBody(AutoNumbered(data, Default(number_begin, Num(1000)),
                                Default(number_offset, Num(1)))),
        Default(opts, EmptyObj))

OrderClient_get(order_id) ==
    Req("/tracelink/order/" \o ToStr(order_id), Undefined, Undefined)

OrderClient_list(opts) ==
    Req("/tracelink/order/list", buildOrderParams(opts), Undefined)

\* mutant of WithId: the positional identifier is written after data
WithId_IdLast(id_field, id_value, data) ==
    SetProp(Spread(EmptyObj, data), id_field, id_value)

\* { id_field: id_value, ...data }
WithId(id_field, id_value, data) ==
    Spread(Obj(<<Prop(id_field, id_value)>>), data)

OrderClient_update(order_id, data, opts) ==
    Req("/tracelink/order/update", ObjectBody(WithId("order_id", order_id, data)),
        Default(opts, EmptyObj))

\* mutant of Deletion: the marker is the number 1
Deletion_NumericMarker(id_field, id_value) ==
    Obj(<<Prop(id_field, id_value), Prop("xdelete", Num(1))>>)

\* { id_field: id_value, xdelete: '1' }
Deletion(id_field, id_value) ==
    Obj(<<Prop(id_field, id_value), Prop("xdelete", Str("1"))>>)

OrderClient_delete(order_id) ==
    Req("/tracelink/order/update", ObjectBody(Deletion("order_id", order_id)),
        Undefined)

\* { id_field: id_value, image_data_encoded, image_description, image_type }
Upload(id_field, id_value, document) ==
    Obj(<<Prop(id_field, id_value),
          Prop("image_data_encoded", Get(document, "data")),
          Prop("image_description", Get(document, "filename")),
          Prop("image_type", Get(document, "type"))>>)

OrderClient_uploadDocument(order_id, document) ==
    Req("/tracelink/order/update", ObjectBody(Upload("order_id", order_id, document)),
        Undefined)

OrderClient_addModule(module_name, data, opts) ==
    Req("/tracelink/order/add/object/module/" \o module_name, ObjectBody(data),
        Default(opts, EmptyObj))

\* mutant of ListModulePath: the suborder id is appended whenever it is given
ListModulePath_SubAlone(module_name, order_id, order_sub_id) ==
    "/tracelink/order/list/module/" \o module_name
    \o (IF Truthy(order_id) THEN "/" \o ToStr(order_id) ELSE "")
    \o (IF Truthy(order_sub_id) THEN "/" \o ToStr(order_sub_id) ELSE "")

\* the optional /<order_id>[/<order_sub_id>] path segments
ListModulePath(module_name, order_id, order_sub_id) ==
    "/tracelink/order/list/module/" \o module_name
    \o (IF Truthy(order_id)
        THEN "/" \o ToStr(order_id)
             \o (IF Truthy(order_sub_id) THEN "/" \o ToStr(order_sub_id) ELSE "")
        ELSE "")

OrderClient_listModule(module_name, order_id, order_sub_id, opts) ==
    Req(ListModulePath(module_name, order_id, order_sub_id),
        buildOrderParams(opts), Undefined)

OrderClient_updateModule(module_name, data, opts) ==
    Req("/tracelink/order/update/object/module/" \o module_name, ObjectBody(data),
        Default(opts, EmptyObj))

OrderClient_deleteModule(module_name, id_field, id_value) ==
    Req("/tracelink/order/update/object/module/" \o module_name,
        ObjectBody(Deletion(id_field, id_value)), Undefined)

SuborderClient_create(parent_order_id, data, opts) ==
    Req("/tracelink/suborder/create",
        ObjectBody(WithId("parent_order_id", parent_order_id, data)),
        Default(opts, EmptyObj))

SuborderClient_get(order_sub_id) ==
    Req("/tracelink/suborder/" \o ToStr(order_sub_id), Undefined, Undefined)

\* the CommonJS file calls build_order_params, which it never defines; the ESM
\* file calls buildOrderParams
SuborderClient_list(b, opts) ==
    IF b = "cjs"
    THEN Throws("ReferenceError: build_order_params is not defined")
    ELSE Req("/tracelink/suborder/list", buildOrderParams(opts), Undefined)

SuborderClient_update(order_sub_id, data, opts) ==
    Req("/tracelink/suborder/update",
        ObjectBody(WithId("order_sub_id", order_sub_id, data)),
        Default(opts, EmptyObj))

SuborderClient_delete(order_sub_id) ==
    Req("/tracelink/suborder/update", ObjectBody(Deletion("order_sub_id", order_sub_id)),
        Undefined)

ObjectClient_createTag(product_id, count) ==
    Req("/object/create",
        ObjectBody(Obj(<<Prop("count", Default(count, Num(1))),
                         Prop("product_id", product_id)>>)),
        Undefined)

ObjectClient_create(module_name, data, opts) ==
    Req("/object/create/" \o module_name, ObjectBody(data), Default(opts, EmptyObj))

ObjectClient_get(module_name, id) ==
    Req("/object/list/module/" \o module_name \o "/" \o ToStr(id), Undefined, Undefined)

ObjectClient_list(module_name, opts) ==
    Req("/object/list/module/" \o module_name, buildOrderParams(opts), Undefined)

ObjectClient_update(module_name, data, opts) ==
    Req("/object/update/" \o module_name, ObjectBody(data), Default(opts, EmptyObj))

ObjectClient_delete(module_name, id_field, id_value) ==
    Req("/object/update/" \o module_name, ObjectBody(Deletion(id_field, id_value)),
        Undefined)

ObjectClient_uploadDocument(module_name, id_field, id_value, document) ==
    Req("/object/update/" \o module_name,
        ObjectBody(Upload(id_field, id_value, document)), Undefined)

RelationPath(verb, from_module, to_module) ==
    "/object/module/" \o verb \o "/" \o from_module \o "/to/" \o to_module

ObjectClient_createRelation(from_module, to_module, data, opts) ==
    Req(RelationPath("create", from_module, to_module), ObjectBody(data),
        Default(opts, EmptyObj))

ObjectClient_listRelations(from_module, to_module, to_module_id, opts) ==
    Req(RelationPath("list", from_module, to_module)
            \o (IF Truthy(to_module_id) THEN "/" \o ToStr(to_module_id) ELSE ""),
        buildOrderParams(opts), Undefined)

ObjectClient_updateRelation(from_module, to_module, data, opts) ==
    Req(RelationPath("update", from_module, to_module), ObjectBody(data),
        Default(opts, EmptyObj))

ObjectClient_deleteRelation(from_module, to_module, id_field, id_value) ==
    Req(RelationPath("update", from_module, to_module),
        ObjectBody(Deletion(id_field, id_value)), Undefined)

UtilClient_listDocuments(module_name, opts) ==
    Req("/util/doc/list/module/" \o module_name, buildOrderParams(opts), Undefined)

-----------------------------------------------------------------------------
(* Inputs: the values callers and the remote service supply *)

\* marks an omitted property while an input object is assembled
Absent == [t |-> "absent"]
With(k, v) == IF v = Absent THEN <<>> ELSE <<Prop(k, v)>>

Builds == {"cjs", "esm"}

TokenValues   == {Absent, Str(""), Str("tok-1")}
FormatValues  == {Absent, Str(""), Str("xml"), Str("yaml")}
CharsetValues == {Absent, Str("UTF-8"), Str("CP850"), Str("latin1")}

ConfigValues ==
    {Undefined, Null} \cup
    {Obj(With("access_token", tk) \o With("format", f) \o With("charset", ch)) :
        tk \in TokenValues, f \in FormatValues, ch \in CharsetValues}

\* per-call request options
RequestOptionValues ==
    {Undefined,
     Obj(<<Prop("idempotency_key", Str(""))>>),
     Obj(<<Prop("idempotency_key", Str("key-A"))>>)}

\* list options passed through the facades
ListOptionValues ==
    {Undefined,
     EmptyObj,
     Obj(<<Prop("sort", Str("name")), Prop("reverse", Bool(TRUE))>>),
     Obj(<<Prop("sort", Arr(<<Str("create_date"), Str("name")>>)),
           Prop("limit", Num(25)), Prop("page", Num(0))>>),
     Obj(<<Prop("filter", Obj(<<Prop("locked", Str("=0"))>>)),
           Prop("filter_or", Bool(TRUE))>>)}

PlainData == Obj(<<Prop("name", Str("A"))>>)
\* data that itself carries the identifier fields
IdData ==
    Obj(<<Prop("name", Str("B")), Prop("order_id", Num(9)),
          Prop("order_sub_id", Num(9)), Prop("parent_order_id", Num(9))>>)
\* data that itself carries numbering fields
NumberingData ==
    Obj(<<Prop("number_begin", Num(5)), Prop("use_numbering", Num(0)),
          Prop("name", Str("C"))>>)

DataValues   == {PlainData, IdData}
AutoData     == {PlainData, NumberingData}
ModuleData   == {PlainData}
NumberArgs   == {<<Undefined, Undefined>>, <<Num(5), Undefined>>, <<Num(5), Num(2)>>}
Counts       == {Undefined, Num(3)}

OrderIds    == {Undefined, Num(0), Num(1040)}
SuborderIds == {Undefined, Num(0), Num(7)}
\* a required `@param {number|string} order_id` / `order_sub_id`
RequiredOrderIds    == {Num(0), Num(1040)}
RequiredSuborderIds == {Num(0), Num(7)}
ModuleNames == {"timereg"}
FromModules == {"genobj"}
IdFields    == {"timereg_id"}
IdValues    == {Num(12)}
Documents   ==
    {Obj(<<Prop("data", Str("aGk=")), Prop("filename", Str("a.pdf")),
           Prop("type", Str("pdf"))>>)}
Endpoints   == {"/user"}

\* response.headers.get('X-ResultFromCache'): null when the header is absent
CacheHeaderValues == {Null, Str(""), Str("key-B")}

\* decoded response bodies
Envelopes ==
    {Obj(<<Prop("status", Str("ok")), Prop("code", Num(200)),
           Prop("message", Str("OK")), Prop("count", Num(1))>>),
     Obj(<<Prop("status", Str("error")), Prop("code", Num(404)),
           Prop("message", Str("Not found")), Prop("count", Num(0))>>),
     Obj(<<Prop("status", Str("warning")), Prop("code", Num(200)),
           Prop("message", Str("Slow")), Prop("count", Num(1))>>),
     Obj(<<Prop("code", Num(200)), Prop("message", Str("OK")),
           Prop("count", Num(0))>>)}

-----------------------------------------------------------------------------
(* State machine *)

CallIds == {"c1"}

NoResult == [kind |-> "none"]

IdleCall ==
    [pc |-> "idle", facade |-> "", args |-> <<>>, endpoint |-> "",
     body |-> Undefined, opts |-> Undefined, header |-> Undefined,
     envelope |-> Undefined, result |-> NoResult]

Pending == [t |-> "pending"]

Init ==
    /\ build \in Builds
    /\ config = Undefined
    /\ ctor = "new"
    /\ client = Undefined
    /\ calls = [c \in CallIds |-> IdleCall]
    /\ fetched = <<>>
    /\ options = Undefined
    /\ params = Pending

\* new TracelinkClient(cfg)
Construct(cfg) ==
    /\ ctor = "new"
    /\ config' = cfg
    /\ LET r == TracelinkClient(cfg)
       IN  /\ ctor' = IF r.threw THEN "thrown" ELSE "ok"
           /\ client' = r.this
    /\ UNCHANGED <<build, calls, fetched, options, params>>

\* a facade method runs up to the first await of request(): it either throws
\* before request() is entered, or request() builds the headers and calls fetch()
Invoke(c, facade, args, r) ==
    /\ ctor = "ok"
    /\ calls[c].pc = "idle"
    /\ calls' = [calls EXCEPT ![c] =
            [pc       |-> IF r.threw THEN "thrown" ELSE "fetch",
             facade   |-> facade,
             args     |-> args,
             endpoint |-> r.endpoint,
             body     |-> r.body,
             opts     |-> r.opts,
             header   |-> Undefined,
             envelope |-> Undefined,
             result   |-> IF r.threw
                          THEN [kind |-> "ReferenceError", message |-> r.error]
                          ELSE NoResult]]
    /\ fetched' =
            IF r.threw THEN fetched
            ELSE LET f == FetchArgs(client, r.endpoint, r.body, r.opts)
                 IN  Append(fetched, [call |-> c, method |-> f.method, url |-> f.url,
                                      headers |-> f.headers, body |-> f.body])
    /\ UNCHANGED <<build, config, ctor, client, options, params>>

\* client.request(endpoint, body, options) called directly
Request(c, endpoint, body, opts) ==
    /\ c \in DOMAIN calls
    /\ Invoke(c, "request", <<Str(endpoint), body, opts>>, Req(endpoint, body, opts))

CompanyGet(c) ==
    /\ c \in DOMAIN calls
    /\ Invoke(c, "company.get", <<>>, CompanyClient_get)
CompanyListDepartments(c, o) ==
    /\ c \in DOMAIN calls
    /\ Invoke(c, "company.listDepartments", <<o>>, CompanyClient_listDepartments(o))
UserGet(c) ==
    /\ c \in DOMAIN calls
    /\ Invoke(c, "user.get", <<>>, UserClient_get)
UserList(c, o) ==
    /\ c \in DOMAIN calls
    /\ Invoke(c, "user.list", <<o>>, UserClient_list(o))
UserListGroups(c, o) ==
    /\ c \in DOMAIN calls
    /\ Invoke(c, "user.listGroups", <<o>>, UserClient_listGroups(o))

OrderCreate(c, d, ro) ==
    /\ c \in DOMAIN calls
    /\ Invoke(c, "order.create", <<d, ro>>, OrderClient_create(d, ro))
OrderCreateAutoNumbered(c, d, nb, no, ro) ==
    /\ c \in DOMAIN calls
    /\ Invoke(c, "order.createAutoNumbered", <<d, nb, no, ro>>,
           OrderClient_createAutoNumbered(d, nb, no, ro))
OrderGet(c, id) ==
    /\ c \in DOMAIN calls
    /\ Invoke(c, "order.get", <<id>>, OrderClient_get(id))
OrderList(c, o) ==
    /\ c \in DOMAIN calls
    /\ Invoke(c, "order.list", <<o>>, OrderClient_list(o))
OrderUpdate(c, id, d, ro) ==
    /\ c \in DOMAIN calls
    /\ Invoke(c, "order.update", <<id, d, ro>>, OrderClient_update(id, d, ro))
OrderDelete(c, id) ==
    /\ c \in DOMAIN calls
    /\ Invoke(c, "order.delete", <<id>>, OrderClient_delete(id))
OrderUploadDocument(c, id, doc) ==
    /\ c \in DOMAIN calls
    /\ Invoke(c, "order.uploadDocument", <<id, doc>>, OrderClient_uploadDocument(id, doc))
OrderAddModule(c, m, d, ro) ==
    /\ c \in DOMAIN calls
    /\ Invoke(c, "order.addModule", <<Str(m), d, ro>>, OrderClient_addModule(m, d, ro))
OrderListModule(c, m, id, sid, o) ==
    /\ c \in DOMAIN calls
    /\ Invoke(c, "order.listModule", <<Str(m), id, sid, o>>,
           OrderClient_listModule(m, id, sid, o))
OrderUpdateModule(c, m, d, ro) ==
    /\ c \in DOMAIN calls
    /\ Invoke(c, "order.updateModule", <<Str(m), d, ro>>, OrderClient_updateModule(m, d, ro))
OrderDeleteModule(c, m, f, v) ==
    /\ c \in DOMAIN calls
    /\ Invoke(c, "order.deleteModule", <<Str(m), Str(f), v>>,
           OrderClient_deleteModule(m, f, v))

SuborderCreate(c, id, d, ro) ==
    /\ c \in DOMAIN calls
    /\ Invoke(c, "suborder.create", <<id, d, ro>>, SuborderClient_create(id, d, ro))
SuborderGet(c, sid) ==
    /\ c \in DOMAIN calls
    /\ Invoke(c, "suborder.get", <<sid>>, SuborderClient_get(sid))
SuborderList(c, o) ==
    /\ c \in DOMAIN calls
    /\ Invoke(c, "suborder.list", <<o>>, SuborderClient_list(build, o))
SuborderUpdate(c, sid, d, ro) ==
    /\ c \in DOMAIN calls
    /\ Invoke(c, "suborder.update", <<sid, d, ro>>, SuborderClient_update(sid, d, ro))
SuborderDelete(c, sid) ==
    /\ c \in DOMAIN calls
    /\ Invoke(c, "suborder.delete", <<sid>>, SuborderClient_delete(sid))

ObjectCreateTag(c, pid, n) ==
    /\ c \in DOMAIN calls
    /\ Invoke(c, "object.createTag", <<pid, n>>, ObjectClient_createTag(pid, n))
ObjectCreate(c, m, d, ro) ==
    /\ c \in DOMAIN calls
    /\ Invoke(c, "object.create", <<Str(m), d, ro>>, ObjectClient_create(m, d, ro))
ObjectGet(c, m, id) ==
    /\ c \in DOMAIN calls
    /\ Invoke(c, "object.get", <<Str(m), id>>, ObjectClient_get(m, id))
ObjectList(c, m, o) ==
    /\ c \in DOMAIN calls
    /\ Invoke(c, "object.list", <<Str(m), o>>, ObjectClient_list(m, o))
ObjectUpdate(c, m, d, ro) ==
    /\ c \in DOMAIN calls
    /\ Invoke(c, "object.update", <<Str(m), d, ro>>, ObjectClient_update(m, d, ro))
ObjectDelete(c, m, f, v) ==
    /\ c \in DOMAIN calls
    /\ Invoke(c, "object.delete", <<Str(m), Str(f), v>>, ObjectClient_delete(m, f, v))
ObjectUploadDocument(c, m, f, v, doc) ==
    /\ c \in DOMAIN calls
    /\ Invoke(c, "object.uploadDocument", <<Str(m), Str(f), v, doc>>,
           ObjectClient_uploadDocument(m, f, v, doc))
ObjectCreateRelation(c, fm, tm, d, ro) ==
    /\ c \in DOMAIN calls
    /\ Invoke(c, "object.createRelation", <<Str(fm), Str(tm), d, ro>>,
           ObjectClient_createRelation(fm, tm, d, ro))
ObjectListRelations(c, fm, tm, id, o) ==
    /\ c \in DOMAIN calls
    /\ Invoke(c, "object.listRelations", <<Str(fm), Str(tm), id, o>>,
           ObjectClient_listRelations(fm, tm, id, o))
ObjectUpdateRelation(c, fm, tm, d, ro) ==
    /\ c \in DOMAIN calls
    /\ Invoke(c, "object.updateRelation", <<Str(fm), Str(tm), d, ro>>,
           ObjectClient_updateRelation(fm, tm, d, ro))
ObjectDeleteRelation(c, fm, tm, f, v) ==
    /\ c \in DOMAIN calls
    /\ Invoke(c, "object.deleteRelation", <<Str(fm), Str(tm), Str(f), v>>,
           ObjectClient_deleteRelation(fm, tm, f, v))

UtilListDocuments(c, m, o) ==
    /\ c \in DOMAIN calls
    /\ Invoke(c, "util.listDocuments", <<Str(m), o>>, UtilClient_listDocuments(m, o))

\* `await fetch(...)` resolves: the response's headers are available
FetchResolve(c, key) ==
    /\ calls[c].pc = "fetch"
    /\ calls' = [calls EXCEPT ![c].pc = "json", ![c].header = key]
    /\ UNCHANGED <<build, config, ctor, client, fetched, options, params>>

\* what fetch() rejects with on a network failure
FetchErrors == {[kind |-> "TypeError", message |-> "fetch failed"]}

\* what response.json() rejects with on a malformed body
JsonErrors == {[kind |-> "SyntaxError", message |-> "Unexpected token"]}

\* mutant of Rethrow: the failure is reclassified as a TracelinkError
Rethrow_Classified(err) ==
    [kind |-> "TracelinkError", message |-> err.message, code |-> Undefined,
     response |-> Undefined]

\* an `await` outside any try/catch: the rejection leaves request() as it is
Rethrow(err) == err

\* `await fetch(...)` rejects (network failure): request() rejects with that error
FetchReject(c) ==
    /\ calls[c].pc = "fetch"
    /\ \E err \in FetchErrors :
          calls' = [calls EXCEPT ![c].pc = "thrown", ![c].result = Rethrow(err)]
    /\ UNCHANGED <<build, config, ctor, client, fetched, options, params>>

\* mutant of JsonResolve: the response headers are read from a slot shared by
\* all calls, which holds those of another call once it has fetched
JsonResolve_SharedHeaders(c, data) ==
    /\ calls[c].pc = "json"
    /\ LET others == {d \in DOMAIN calls \ {c} : calls[d].header # Undefined}
           h == IF others = {} THEN calls[c].header
                ELSE calls[CHOOSE d \in others : TRUE].header
           out == Settle(data, h)
       IN  calls' = [calls EXCEPT ![c].pc = out.pc,
                                  ![c].envelope = data,
                                  ![c].result = out.result]
    /\ UNCHANGED <<build, config, ctor, client, fetched, options, params>>

\* `await response.json()` resolves with the decoded body; request() then runs
\* to its return or throw without suspending again
JsonResolve(c, data) ==
    /\ calls[c].pc = "json"
    /\ LET out == Settle(data, calls[c].header)
       IN  calls' = [calls EXCEPT ![c].pc = out.pc,
                                  ![c].envelope = data,
                                  ![c].result = out.result]
    /\ UNCHANGED <<build, config, ctor, client, fetched, options, params>>

\* `await response.json()` rejects (malformed body)
JsonReject(c) ==
    /\ calls[c].pc = "json"
    /\ \E err \in JsonErrors :
          calls' = [calls EXCEPT ![c].pc = "thrown", ![c].result = Rethrow(err)]
    /\ UNCHANGED <<build, config, ctor, client, fetched, options, params>>

Settled(c) == calls[c].pc \in {"returned", "thrown"}

\* the caller drops a settled call and its log entries; the slot is free again
Forget(c) ==
    /\ Settled(c)
    /\ calls' = [calls EXCEPT ![c] = IdleCall]
    /\ fetched' = SelectSeq(fetched, LAMBDA f : f.call # c)
    /\ UNCHANGED <<build, config, ctor, client, options, params>>

Facades(c) ==
    \/ CompanyGet(c)
    \/ \E o \in ListOptionValues : CompanyListDepartments(c, o)
    \/ UserGet(c)
    \/ \E o \in ListOptionValues : UserList(c, o)
    \/ \E o \in ListOptionValues : UserListGroups(c, o)
    \/ \E d \in DataValues, ro \in RequestOptionValues : OrderCreate(c, d, ro)
    \/ \E d \in AutoData, n \in NumberArgs, ro \in RequestOptionValues :
          OrderCreateAutoNumbered(c, d, n[1], n[2], ro)
    \/ \E id \in RequiredOrderIds : OrderGet(c, id)
    \/ \E o \in ListOptionValues : OrderList(c, o)
    \/ \E id \in RequiredOrderIds, d \in DataValues, ro \in RequestOptionValues :
          OrderUpdate(c, id, d, ro)
    \/ \E id \in RequiredOrderIds : OrderDelete(c, id)
    \/ \E id \in RequiredOrderIds, doc \in Documents : OrderUploadDocument(c, id, doc)
    \/ \E m \in ModuleNames, d \in ModuleData, ro \in RequestOptionValues :
          OrderAddModule(c, m, d, ro)
    \/ \E m \in ModuleNames, id \in OrderIds, sid \in SuborderIds,
          o \in ListOptionValues : OrderListModule(c, m, id, sid, o)
    \/ \E m \in ModuleNames, d \in ModuleData, ro \in RequestOptionValues :
          OrderUpdateModule(c, m, d, ro)
    \/ \E m \in ModuleNames, f \in IdFields, v \in IdValues :
          OrderDeleteModule(c, m, f, v)
    \/ \E id \in RequiredOrderIds, d \in DataValues, ro \in RequestOptionValues :
          SuborderCreate(c, id, d, ro)
    \/ \E sid \in RequiredSuborderIds : SuborderGet(c, sid)
    \/ \E o \in ListOptionValues : SuborderList(c, o)
    \/ \E sid \in RequiredSuborderIds, d \in DataValues,
          ro \in RequestOptionValues : SuborderUpdate(c, sid, d, ro)
    \/ \E sid \in RequiredSuborderIds : SuborderDelete(c, sid)
    \/ \E pid \in IdValues, n \in Counts : ObjectCreateTag(c, pid, n)
    \/ \E m \in ModuleNames, d \in ModuleData, ro \in RequestOptionValues :
          ObjectCreate(c, m, d, ro)
    \/ \E m \in ModuleNames, id \in IdValues : ObjectGet(c, m, id)
    \/ \E m \in ModuleNames, o \in ListOptionValues : ObjectList(c, m, o)
    \/ \E m \in ModuleNames, d \in ModuleData, ro \in RequestOptionValues :
          ObjectUpdate(c, m, d, ro)
    \/ \E m \in ModuleNames, f \in IdFields, v \in IdValues : ObjectDelete(c, m, f, v)
    \/ \E m \in ModuleNames, f \in IdFields, v \in IdValues, doc \in Documents :
          ObjectUploadDocument(c, m, f, v, doc)
    \/ \E fm \in FromModules, tm \in ModuleNames, d \in ModuleData,
          ro \in RequestOptionValues : ObjectCreateRelation(c, fm, tm, d, ro)
    \/ \E fm \in FromModules, tm \in ModuleNames, id \in OrderIds,
          o \in ListOptionValues : ObjectListRelations(c, fm, tm, id, o)
    \/ \E fm \in FromModules, tm \in ModuleNames, d \in ModuleData,
          ro \in RequestOptionValues : ObjectUpdateRelation(c, fm, tm, d, ro)
    \/ \E fm \in FromModules, tm \in ModuleNames, f \in IdFields, v \in IdValues :
          ObjectDeleteRelation(c, fm, tm, f, v)
    \/ \E m \in ModuleNames, o \in ListOptionValues : UtilListDocuments(c, m, o)

Next ==
    \/ \E cfg \in ConfigValues : Construct(cfg)
    \/ \E c \in CallIds :
        \/ Facades(c)
        \/ \E e \in Endpoints, b \in {Undefined} \cup ModuleData,
              ro \in RequestOptionValues : Request(c, e, b, ro)
        \/ \E key \in CacheHeaderValues : FetchResolve(c, key)
        \/ FetchReject(c)
        \/ \E data \in Envelopes : JsonResolve(c, data)
        \/ JsonReject(c)
        \/ Forget(c)

Spec == Init /\ [][Next]_vars

-----------------------------------------------------------------------------
(* buildOrderParams evaluated on its own, over a wider range of options *)

MaxSortLen == 2
MaxPage    == 1

SortFields == {Str("name"), Str("create_date")}
SortArrays == UNION {{Arr(a) : a \in [1..n -> SortFields]} : n \in 0..MaxSortLen}
SortValues == {Absent, Str(""), Str("name")} \cup SortArrays
FlagValues == {Absent, Bool(FALSE), Bool(TRUE)}
LimitValues == {Absent, Num(0), Num(25)}
PageValues == {Absent, Undefined} \cup {Num(n) : n \in 0..MaxPage}
FilterValues ==
    {Absent,
     EmptyObj,
     Obj(<<Prop("locked", Str("=0"))>>),
     Obj(<<Prop("name", Str("~Test")), Prop("order_id", Str("IN(1,2"))>>)}

OptionValues ==
    {Undefined} \cup
    {Obj(With("filter_or", fo) \o With("filter", fi) \o With("page", pg)
         \o With("limit", li) \o With("reverse", rv) \o With("sort", so)) :
        fo \in FlagValues, fi \in FilterValues, pg \in PageValues,
        li \in LimitValues, rv \in FlagValues, so \in SortValues}

InitParams ==
    /\ build \in Builds
    /\ config = Undefined
    /\ ctor = "new"
    /\ client = Undefined
    /\ calls = [c \in CallIds |-> IdleCall]
    /\ fetched = <<>>
    /\ options \in OptionValues
    /\ params = Pending

\* params = buildOrderParams(options)
BuildOrderParams ==
    /\ params = Pending
    /\ params' = buildOrderParams(options)
    /\ UNCHANGED <<build, config, ctor, client, calls, fetched, options>>

NextParams == BuildOrderParams

SpecParams == InitParams /\ [][NextParams]_vars

-----------------------------------------------------------------------------
(* Two calls in flight on one client: each async method suspends at          *)
(* `await fetch(...)` and `await response.json()`, where the other call may  *)
(* run.                                                                      *)

ConcurrentCallIds == {"c1", "c2"}

ConcurrentConfigs ==
    {Obj(<<Prop("access_token", Str("tok-1"))>>),
     Obj(<<Prop("access_token", Str("tok-1")), Prop("format", Str("xml")),
           Prop("charset", Str("CP850"))>>)}

ConcurrentHeaders == {Null, Str("key-B")}

ConcurrentEnvelopes ==
    {e \in Envelopes : Get(e, "status") \in {Str("ok"), Str("error")}}

InitConcurrent ==
    /\ build \in Builds
    /\ config = Undefined
    /\ ctor = "new"
    /\ client = Undefined
    /\ calls = [c \in ConcurrentCallIds |-> IdleCall]
    /\ fetched = <<>>
    /\ options = Undefined
    /\ params = Pending

NextConcurrent ==
    \/ \E cfg \in ConcurrentConfigs : Construct(cfg)
    \/ \E c \in ConcurrentCallIds :
        \/ \E d \in DataValues, ro \in RequestOptionValues : OrderCreate(c, d, ro)
        \/ \E id \in RequiredOrderIds : OrderDelete(c, id)
        \/ \E key \in ConcurrentHeaders : FetchResolve(c, key)
        \/ FetchReject(c)
        \/ \E data \in ConcurrentEnvelopes : JsonResolve(c, data)
        \/ JsonReject(c)
        \/ Forget(c)

SpecConcurrent == InitConcurrent /\ [][NextConcurrent]_vars

-----------------------------------------------------------------------------
(* Properties *)

\* the call that issued a logged fetch
CallOf(f) == calls[f.call]

\* the envelope was decoded for call c
Decoded(c) == calls[c].envelope # Undefined

\* env with the two cache annotations appended
Annotated(env, v) ==
    Obj(env.o \o <<Prop("_cached", Bool(TRUE)), Prop("_idempotency_key", v)>>)

NonEmptyString(v) == v.t = "string" /\ v.s # ""

MissingToken(cfg) ==
    \/ cfg \in {Undefined, Null}
    \/ ~HasKey(cfg, "access_token")
    \/ Get(cfg, "access_token") = Str("")

\* C1: constructing with a missing config, or a missing or empty access_token,
\* throws, leaves no client and issues no HTTP request; constructing with a
\* non-empty token succeeds, and format and charset default to 'json' and
\* 'UTF-8' when the config does not give them.
C1_Constructor ==
    ctor # "new" =>
        /\ (ctor = "thrown") <=> MissingToken(config)
        /\ ctor = "thrown" =>
              /\ client = Undefined
              /\ fetched = <<>>
              /\ \A c \in DOMAIN calls : calls[c].pc = "idle"
        /\ ctor = "ok" =>
              /\ client.access_token = Get(config, "access_token")
              /\ ~HasKey(config, "format") => client.format = Str("json")
              /\ ~HasKey(config, "charset") => client.charset = Str("UTF-8")

C1_Witness ==
    /\ ctor = "thrown"
    /\ HasKey(config, "access_token")
    /\ Get(config, "access_token") = Str("")

\* C2 as stated: request() throws a TracelinkError exactly when the decoded
\* envelope's status is 'error'; the error's message and code are the envelope's
\* and its response equals the decoded envelope.
C2_Original ==
    \A c \in DOMAIN calls :
        LET e == calls[c].envelope
            r == calls[c].result
        IN  /\ r.kind = "TracelinkError" => Decoded(c)
            /\ Decoded(c) =>
                /\ (r.kind = "TracelinkError") <=> (Get(e, "status") = Str("error"))
                /\ r.kind # "TracelinkError" =>
                      calls[c].pc = "returned" /\ r.kind = "value"
                /\ r.kind = "TracelinkError" =>
                      /\ calls[c].pc = "thrown"
                      /\ Str(r.message) = Get(e, "message")
                      /\ r.code = Get(e, "code")
                      /\ r.response = e

\* C2 amended: request() throws a TracelinkError exactly when the decoded
\* envelope's status is 'error' (any other or a missing status returns); the
\* error's message and code are the envelope's, and its response is the decoded
\* envelope, to which _cached and _idempotency_key have been added when the
\* X-ResultFromCache header carried a non-empty value.
C2_ErrorEnvelope ==
    \A c \in DOMAIN calls :
        LET e == calls[c].envelope
            r == calls[c].result
            h == calls[c].header
        IN  /\ r.kind = "TracelinkError" => Decoded(c)
            /\ Decoded(c) =>
                /\ (r.kind = "TracelinkError") <=> (Get(e, "status") = Str("error"))
                /\ r.kind # "TracelinkError" =>
                      calls[c].pc = "returned" /\ r.kind = "value"
                /\ r.kind = "TracelinkError" =>
                      /\ calls[c].pc = "thrown"
                      /\ Str(r.message) = Get(e, "message")
                      /\ r.code = Get(e, "code")
                      /\ r.response = IF NonEmptyString(h) THEN Annotated(e, h) ELSE e

C2_Witness ==
    \E c \in DOMAIN calls :
        /\ calls[c].result.kind = "TracelinkError"
        /\ calls[c].header = Str("key-B")
        /\ calls[c].result.code = Num(404)

\* C3 as stated: an 'ok' envelope is returned unchanged; when the
\* X-ResultFromCache header is present with value v the returned envelope also
\* has _cached = true and _idempotency_key = v; when it is absent nothing is added.
C3_Original ==
    \A c \in DOMAIN calls :
        LET e == calls[c].envelope
            h == calls[c].header
        IN  (Decoded(c) /\ Get(e, "status") = Str("ok")) =>
                /\ calls[c].pc = "returned"
                /\ calls[c].result.kind = "value"
                /\ calls[c].result.value = IF h # Null THEN Annotated(e, h) ELSE e

\* C3 amended: an 'ok' envelope is returned unchanged; when the
\* X-ResultFromCache header is present with a non-empty value v the returned
\* envelope also has _cached = true and _idempotency_key = v (the header's value,
\* not the key sent); when the header is absent or empty nothing is added.
C3_OkEnvelope ==
    \A c \in DOMAIN calls :
        LET e == calls[c].envelope
            h == calls[c].header
        IN  (Decoded(c) /\ Get(e, "status") = Str("ok")) =>
                /\ calls[c].pc = "returned"
                /\ calls[c].result.kind = "value"
                /\ calls[c].result.value =
                      IF NonEmptyString(h) THEN Annotated(e, h) ELSE e

C3_Witness ==
    \E c \in DOMAIN calls :
        /\ calls[c].pc = "returned"
        /\ Get(calls[c].envelope, "status") = Str("ok")
        /\ calls[c].header = Str("key-B")
        /\ Get(calls[c].opts, "idempotency_key") = Str("key-A")
        /\ Get(calls[c].result.value, "_idempotency_key") = Str("key-B")
        /\ Get(calls[c].result.value, "_cached") = Bool(TRUE)

\* C4: every fetch is a POST to BASE_URL + endpoint with x-access-token equal to
\* the client's token, Content-Type application/json, Accept application/xml
\* when the format is 'xml' and application/json otherwise, and a body that is
\* the JSON text of the body argument whatever the format.
C4_RequestShape ==
    \A i \in 1..Len(fetched) :
        LET f == fetched[i]
            k == CallOf(f)
        IN  /\ f.method = "POST"
            /\ f.url = "https://tracelink.app/rest" \o k.endpoint
            /\ Keys(f.headers)[1] = "x-access-token"
            /\ Get(f.headers, "x-access-token") = Get(config, "access_token")
            /\ Get(f.headers, "Content-Type") = Str("application/json")
            /\ Get(f.headers, "Accept") =
                  IF Get(config, "format") = Str("xml")
                  THEN Str("application/xml") ELSE Str("application/json")
            /\ f.body = JSONstringify(k.body)
            /\ k.facade = "company.get" =>
                  f.body = "{}" /\ f.url = "https://tracelink.app/rest/company"
            /\ (k.facade = "order.delete" /\ k.args = <<Num(1040)>>) =>
                  f.body = "{\"object\":{\"order_id\":1040,\"xdelete\":\"1\"}}"

C4_Witness ==
    \E i \in 1..Len(fetched) :
        /\ client.format = Str("xml")
        /\ Get(fetched[i].headers, "Accept") = Str("application/xml")
        /\ fetched[i].body = "{\"object\":{\"order_id\":1040,\"xdelete\":\"1\"}}"

\* C5 as stated: a request carries X-Charset (CP850) if and only if the client's
\* charset is not the default 'UTF-8'.
C5_Original ==
    \A i \in 1..Len(fetched) :
        /\ HasKey(fetched[i].headers, "X-Charset") <=> client.charset # Str("UTF-8")
        /\ HasKey(fetched[i].headers, "X-Charset") =>
              Get(fetched[i].headers, "X-Charset") = Str("CP850")

\* C5 amended: a request carries X-Charset (CP850) if and only if the client's
\* charset is 'CP850'; with the charset left at its default the header is never
\* set, and with 'CP850' it is set on every request.
C5_CharsetHeader ==
    \A i \in 1..Len(fetched) :
        /\ HasKey(fetched[i].headers, "X-Charset") <=> client.charset = Str("CP850")
        /\ HasKey(fetched[i].headers, "X-Charset") =>
              Get(fetched[i].headers, "X-Charset") = Str("CP850")
        /\ ~HasKey(config, "charset") => ~HasKey(fetched[i].headers, "X-Charset")
        /\ Get(config, "charset") = Str("CP850") =>
              HasKey(fetched[i].headers, "X-Charset")

C5_Witness ==
    \E i \in 1..Len(fetched) :
        /\ Get(config, "charset") = Str("CP850")
        /\ Get(fetched[i].headers, "X-Charset") = Str("CP850")

\* position of the request-options argument of the methods that accept one
OptionsIndex(facade) ==
    CASE facade \in {"order.create"} -> 2
      [] facade \in {"order.update", "order.addModule", "order.updateModule",
                     "suborder.create", "suborder.update", "object.create",
                     "object.update", "request"} -> 3
      [] facade \in {"order.createAutoNumbered", "object.createRelation",
                     "object.updateRelation"} -> 4
      [] OTHER -> 0

\* the idempotency_key the caller passed (undefined when none)
CallerKey(k) ==
    IF OptionsIndex(k.facade) = 0 THEN Undefined
    ELSE Get(k.args[OptionsIndex(k.facade)], "idempotency_key")

\* C6 as stated: a request carries Idempotency-Key if and only if the caller's
\* options.idempotency_key is set, with that key as value, through every facade
\* method that accepts request options.
C6_Original ==
    \A i \in 1..Len(fetched) :
        LET key == CallerKey(CallOf(fetched[i]))
        IN  /\ HasKey(fetched[i].headers, "Idempotency-Key") <=> key # Undefined
            /\ HasKey(fetched[i].headers, "Idempotency-Key") =>
                  Get(fetched[i].headers, "Idempotency-Key") = key

\* C6 amended: a request carries Idempotency-Key if and only if the caller's
\* options.idempotency_key is a non-empty string, with that key as value (an
\* empty key sends no header); every facade method that accepts request options
\* forwards the caller's key unchanged to request().
C6_IdempotencyHeader ==
    \A i \in 1..Len(fetched) :
        LET k   == CallOf(fetched[i])
            key == CallerKey(k)
        IN  /\ HasKey(fetched[i].headers, "Idempotency-Key") <=> NonEmptyString(key)
            /\ HasKey(fetched[i].headers, "Idempotency-Key") =>
                  Get(fetched[i].headers, "Idempotency-Key") = key
            /\ Get(k.opts, "idempotency_key") = key

C6_Witness ==
    \E i \in 1..Len(fetched) :
        /\ CallOf(fetched[i]).facade = "object.updateRelation"
        /\ CallerKey(CallOf(fetched[i])) = Str("key-A")
        /\ Get(fetched[i].headers, "Idempotency-Key") = Str("key-A")

\* position of the list-options argument of the list methods
ListOptionsIndex(facade) ==
    CASE facade \in {"company.listDepartments", "user.list", "user.listGroups",
                     "order.list", "suborder.list"} -> 1
      [] facade \in {"object.list", "util.listDocuments"} -> 2
      [] facade \in {"order.listModule", "object.listRelations"} -> 4
      [] OTHER -> 0

\* C7: every list method, for every options value, issues one request whose body
\* is buildOrderParams(options) and does not fail before the request is issued.
C7_ListMethods ==
    \A c \in DOMAIN calls :
        LET k == calls[c]
        IN  ListOptionsIndex(k.facade) # 0 =>
                /\ k.result.kind # "ReferenceError"
                /\ Cardinality({i \in 1..Len(fetched) : fetched[i].call = c}) = 1
                /\ \A i \in 1..Len(fetched) :
                      fetched[i].call = c =>
                          fetched[i].body =
                              JSONstringify(
                                  buildOrderParams(k.args[ListOptionsIndex(k.facade)]))

\* the options buildOrderParams worked on, and the order object it returned
GivenOptions == Default(options, EmptyObj)
ReturnedOrder == Get(params, "order")

\* some recognized option produces a field
ProducesField(opts) ==
    \/ Truthy(Get(opts, "sort"))
    \/ Truthy(Get(opts, "reverse"))
    \/ Get(opts, "limit") # Undefined
    \/ Get(opts, "page") # Undefined
    \/ Truthy(Get(opts, "filter"))
    \/ Truthy(Get(opts, "filter_or"))

\* C8: buildOrderParams returns {} when no recognized option produced a field
\* and never {order: {}}: the result has an 'order' key if and only if the order
\* object has at least one field.
C8_NoEmptyOrder ==
    params # Pending =>
        /\ params # Obj(<<Prop("order", EmptyObj)>>)
        /\ HasKey(params, "order") <=> ProducesField(GivenOptions)
        /\ HasKey(params, "order") => Len(ReturnedOrder.o) > 0
        /\ ~HasKey(params, "order") => params = EmptyObj

C8_Witness ==
    /\ params = EmptyObj
    /\ Get(options, "reverse") = Bool(FALSE)
    /\ Get(options, "filter_or") = Bool(FALSE)
    /\ Get(options, "sort") = Str("")

\* the strings of a joined with commas, left to right
RECURSIVE CommaJoined(_, _)
CommaJoined(a, n) ==
    IF n = 0 THEN ""
    ELSE IF n = 1 THEN a[1].s
    ELSE CommaJoined(a, n - 1) \o "," \o a[n].s

\* C9 as stated: a sort given as a single string passes through unchanged as
\* order.sort; a sequence of strings gives the elements joined with commas in
\* order, for every sequence including the empty and the one-element one.
C9_Original ==
    params # Pending =>
        LET so == Get(GivenOptions, "sort")
        IN  /\ so.t = "string" => Get(ReturnedOrder, "sort") = so
            /\ so.t = "array" =>
                  Get(ReturnedOrder, "sort") = Str(CommaJoined(so.a, Len(so.a)))

\* C9 amended: a sort given as a non-empty string passes through unchanged as
\* order.sort, and an empty string gives no order.sort at all; a sequence of
\* strings gives the elements joined with commas in order, for every sequence
\* including the empty one (order.sort = '') and the one-element one.
C9_SortRule ==
    params # Pending =>
        LET so == Get(GivenOptions, "sort")
        IN  /\ NonEmptyString(so) => Get(ReturnedOrder, "sort") = so
            /\ so = Str("") => ~HasKey(ReturnedOrder, "sort")
            /\ so = Undefined => ~HasKey(ReturnedOrder, "sort")
            /\ so.t = "array" =>
                  Get(ReturnedOrder, "sort") = Str(CommaJoined(so.a, Len(so.a)))

C9_Witness ==
    /\ params # Pending
    /\ Get(options, "sort") = Arr(<<Str("create_date"), Str("name")>>)
    /\ Get(ReturnedOrder, "sort") = Str("create_date,name")

\* C10: limit and page are included verbatim whenever they are defined, zero
\* included, and are absent from the order object when they are not defined.
C10_LimitPage ==
    params # Pending =>
        \A f \in {"limit", "page"} :
            IF Get(GivenOptions, f) # Undefined
            THEN HasKey(ReturnedOrder, f)
                 /\ Get(ReturnedOrder, f) = Get(GivenOptions, f)
            ELSE ~HasKey(ReturnedOrder, f)

C10_Witness ==
    /\ params # Pending
    /\ Get(options, "page") = Num(0)
    /\ ~HasKey(options, "limit")
    /\ Get(ReturnedOrder, "page") = Num(0)
    /\ ~HasKey(ReturnedOrder, "limit")

\* C11: order.reverse is present, with the integer 1, only when options.reverse
\* is truthy, and order.filter_or is present, with the boolean true, only when
\* options.filter_or is truthy; for a falsy or absent option the field is
\* omitted entirely.
C11_Flags ==
    params # Pending =>
        /\ IF Truthy(Get(GivenOptions, "reverse"))
           THEN Get(ReturnedOrder, "reverse") = Num(1)
           ELSE ~HasKey(ReturnedOrder, "reverse")
        /\ IF Truthy(Get(GivenOptions, "filter_or"))
           THEN Get(ReturnedOrder, "filter_or") = Bool(TRUE)
           ELSE ~HasKey(ReturnedOrder, "filter_or")

C11_Witness ==
    /\ params # Pending
    /\ Get(options, "reverse") = Bool(TRUE)
    /\ Get(options, "filter_or") = Bool(FALSE)
    /\ Get(ReturnedOrder, "reverse") = Num(1)
    /\ ~HasKey(ReturnedOrder, "filter_or")

\* C12: buildOrderParams forwards the filter mapping verbatim: for every
\* supplied filter mapping, the empty one and one with a malformed expression
\* included, order.filter has exactly the same field names mapped to the same
\* expression strings.
C12_FilterVerbatim ==
    params # Pending =>
        LET fi == Get(GivenOptions, "filter")
        IN  IF fi.t = "object"
            THEN /\ HasKey(ReturnedOrder, "filter")
                 /\ Get(ReturnedOrder, "filter") = fi
                 /\ Keys(Get(ReturnedOrder, "filter")) = Keys(fi)
            ELSE ~HasKey(ReturnedOrder, "filter")

C12_Witness ==
    /\ params # Pending
    /\ Get(options, "filter") =
           Obj(<<Prop("name", Str("~Test")), Prop("order_id", Str("IN(1,2"))>>)
    /\ Get(Get(ReturnedOrder, "filter"), "order_id") = Str("IN(1,2")
    /\ Keys(Get(ReturnedOrder, "filter")) = <<"name", "order_id">>

DeleteFacades ==
    {"order.delete", "order.deleteModule", "suborder.delete", "object.delete",
     "object.deleteRelation"}

\* the endpoint the corresponding update operation posts to
UpdateEndpointOf(k) ==
    CASE k.facade = "order.delete" ->
            OrderClient_update(k.args[1], EmptyObj, Undefined).endpoint
      [] k.facade = "order.deleteModule" ->
            OrderClient_updateModule(k.args[1].s, EmptyObj, Undefined).endpoint
      [] k.facade = "suborder.delete" ->
            SuborderClient_update(k.args[1], EmptyObj, Undefined).endpoint
      [] k.facade = "object.delete" ->
            ObjectClient_update(k.args[1].s, EmptyObj, Undefined).endpoint
      [] k.facade = "object.deleteRelation" ->
            ObjectClient_updateRelation(k.args[1].s, k.args[2].s, EmptyObj,
                                        Undefined).endpoint

\* the identifier field and value a delete call was given
DeletedField(k) ==
    CASE k.facade = "order.delete" -> "order_id"
      [] k.facade = "suborder.delete" -> "order_sub_id"
      [] k.facade = "object.deleteRelation" -> k.args[3].s
      [] OTHER -> k.args[2].s

DeletedId(k) == k.args[Len(k.args)]

\* C13: every delete operation (order.delete, order.deleteModule,
\* suborder.delete, object.delete, object.deleteRelation) issues a POST to the
\* endpoint path of the corresponding update operation, with a body whose object
\* carries the identifier field and the marker xdelete = '1'; no request uses
\* another HTTP verb.
C13_Deletes ==
    \A i \in 1..Len(fetched) :
        LET f == fetched[i]
            k == CallOf(f)
        IN  /\ f.method = "POST"
            /\ k.facade \in DeleteFacades =>
                  /\ f.url = "https://tracelink.app/rest" \o UpdateEndpointOf(k)
                  /\ Keys(k.body) = <<"object">>
                  /\ Keys(Get(k.body, "object")) = <<DeletedField(k), "xdelete">>
                  /\ Get(Get(k.body, "object"), DeletedField(k)) = DeletedId(k)
                  /\ Get(Get(k.body, "object"), "xdelete") = Str("1")
                  /\ f.body = "{\"object\":{\"" \o DeletedField(k) \o "\":"
                                 \o ToString(DeletedId(k).n) \o ",\"xdelete\":\"1\"}}"
            /\ k.facade = "object.deleteRelation" =>
                  f.url = "https://tracelink.app/rest/object/module/update/genobj/to/timereg"

C13_Witness ==
    \E i \in 1..Len(fetched) :
        /\ CallOf(fetched[i]).facade = "suborder.delete"
        /\ fetched[i].method = "POST"
        /\ fetched[i].url = "https://tracelink.app/rest/tracelink/suborder/update"
        /\ fetched[i].body = "{\"object\":{\"order_sub_id\":7,\"xdelete\":\"1\"}}"

\* an id counts as supplied unless it is absent or zero
Supplied(id) == id # Undefined /\ id # Num(0)

\* C14: order.listModule posts to /tracelink/order/list/module/<module>,
\* followed by /<order_id> only when order_id is supplied (zero or absent counts
\* as not supplied), followed by /<order_sub_id> only when the order id is
\* supplied and order_sub_id is supplied; a suborder id without an order id is
\* skipped.
C14_ListModulePath ==
    \A i \in 1..Len(fetched) :
        LET f == fetched[i]
            k == CallOf(f)
            base == "https://tracelink.app/rest/tracelink/order/list/module/"
                        \o k.args[1].s
            oid == k.args[2]
            sid == k.args[3]
        IN  k.facade = "order.listModule" =>
                /\ ~Supplied(oid) => f.url = base
                /\ (Supplied(oid) /\ ~Supplied(sid)) =>
                      f.url = base \o "/" \o ToString(oid.n)
                /\ (Supplied(oid) /\ Supplied(sid)) =>
                      f.url = base \o "/" \o ToString(oid.n) \o "/" \o ToString(sid.n)

C14_Witness ==
    \E i \in 1..Len(fetched) :
        /\ CallOf(fetched[i]).facade = "order.listModule"
        /\ CallOf(fetched[i]).args[2] = Num(0)
        /\ CallOf(fetched[i]).args[3] = Num(7)
        /\ fetched[i].url = "https://tracelink.app/rest/tracelink/order/list/module/timereg"

NumberingFields == {"use_numbering", "number_begin", "number_offset"}

\* C15: order.createAutoNumbered posts to /tracelink/order/create an object
\* with every field of data plus use_numbering = 1, number_begin and
\* number_offset, which are 1000 and 1 when omitted and the caller's values
\* otherwise; the three injected fields take precedence over fields of the
\* same name in data.
C15_AutoNumbered ==
    \A i \in 1..Len(fetched) :
        LET f == fetched[i]
            k == CallOf(f)
            data == k.args[1]
            sent == Get(k.body, "object")
        IN  k.facade = "order.createAutoNumbered" =>
                /\ f.url = "https://tracelink.app/rest/tracelink/order/create"
                /\ f.body = JSONstringify(k.body)
                /\ Get(sent, "use_numbering") = Num(1)
                /\ Get(sent, "number_begin") =
                      IF k.args[2] = Undefined THEN Num(1000) ELSE k.args[2]
                /\ Get(sent, "number_offset") =
                      IF k.args[3] = Undefined THEN Num(1) ELSE k.args[3]
                /\ \A n \in 1..Len(data.o) :
                      data.o[n].k \notin NumberingFields =>
                          Get(sent, data.o[n].k) = data.o[n].v
                /\ \A n \in 1..Len(sent.o) :
                      sent.o[n].k \in NumberingFields \/ HasKey(data, sent.o[n].k)

C15_Witness ==
    \E i \in 1..Len(fetched) :
        /\ CallOf(fetched[i]).facade = "order.createAutoNumbered"
        /\ CallOf(fetched[i]).args[1] = NumberingData
        /\ CallOf(fetched[i]).args[2] = Undefined
        /\ fetched[i].body = "{\"object\":{\"number_begin\":1000,\"use_numbering\":1,"
                                \o "\"name\":\"C\",\"number_offset\":1}}"

\* what a fetch log entry sent, without the slot that issued it
Sent(f) == [method |-> f.method, url |-> f.url, headers |-> f.headers,
            body |-> f.body]

\* C16: two calls of the same facade method on the same client with equal
\* arguments and the same idempotency_key produce identical requests (same URL,
\* headers and body), whatever the other call's position or outcome (in flight,
\* returned, or failed) when the second one is issued.
C16_Resend ==
    \A i, j \in 1..Len(fetched) :
        LET a == CallOf(fetched[i])
            b == CallOf(fetched[j])
        IN  (a.facade = b.facade /\ a.args = b.args) =>
                Sent(fetched[i]) = Sent(fetched[j])

C16_Witness ==
    \E i, j \in 1..Len(fetched) :
        /\ i < j
        /\ fetched[i].call # fetched[j].call
        /\ CallOf(fetched[i]).facade = "order.create"
        /\ CallOf(fetched[i]).args = CallOf(fetched[j]).args
        /\ CallOf(fetched[i]).args[2] = Obj(<<Prop("idempotency_key", Str("key-A"))>>)
        /\ CallOf(fetched[i]).pc = "thrown"
        /\ CallOf(fetched[j]).pc = "fetch"
        /\ Get(fetched[j].headers, "Idempotency-Key") = Str("key-A")
        /\ Sent(fetched[i]) = Sent(fetched[j])

\* the number of fetch() invocations call c has made
PostsOf(c) ==
    Cardinality({i \in 1..Len(fetched) :
                    fetched[i].call = c /\ fetched[i].method = "POST"})

\* C17: every facade call issues exactly one HTTP POST and never a second one,
\* whatever the outcome (an 'ok' envelope, an 'error' envelope, a transport or
\* decode failure), and a failure is always surfaced to the caller: the call
\* ends thrown with the error, never returned.
C17_OnePost ==
    \A c \in DOMAIN calls :
        LET k == calls[c]
        IN  /\ k.pc # "idle" => PostsOf(c) = 1
            /\ \A i \in 1..Len(fetched) : fetched[i].call = c => fetched[i].method = "POST"
            /\ Get(k.envelope, "status") = Str("error") =>
                  k.pc = "thrown" /\ k.result.kind = "TracelinkError"
            /\ k.pc = "thrown" => k.result.kind \notin {"none", "value"}
            /\ k.pc = "returned" => k.result.kind = "value"

\* call c ended on a transport or decode failure: it threw after fetch() was
\* called and before any body was decoded
FailedBeforeDecoding(c) ==
    /\ calls[c].pc = "thrown"
    /\ calls[c].envelope = Undefined
    /\ PostsOf(c) = 1

\* C18: when the HTTP call fails or the response body cannot be decoded,
\* request() fails with exactly the error the transport or the decoder raised:
\* not a TracelinkError, not wrapped, and without the cache annotation or the
\* status check having run (no envelope, no response attached).
C18_Propagation ==
    \A c \in DOMAIN calls :
        LET k == calls[c]
        IN  FailedBeforeDecoding(c) =>
                /\ k.header = Undefined =>
                      k.result = [kind |-> "TypeError", message |-> "fetch failed"]
                /\ k.header # Undefined =>
                      k.result = [kind |-> "SyntaxError", message |-> "Unexpected token"]
                /\ k.result.kind # "TracelinkError"
                /\ DOMAIN k.result = {"kind", "message"}

C18_Witness ==
    \E c \in DOMAIN calls :
        /\ FailedBeforeDecoding(c)
        /\ calls[c].header = Str("key-B")
        /\ calls[c].result.kind = "SyntaxError"

\* what the facade of call k passes to request(), from k's own arguments
OwnRequest(k) ==
    CASE k.facade = "order.create" -> OrderClient_create(k.args[1], k.args[2])
      [] k.facade = "order.delete" -> OrderClient_delete(k.args[1])

\* call c's request is the one its own arguments and the configuration give,
\* and its result is the one its own response gives
Isolated(c) ==
    LET k == calls[c]
        e == k.envelope
        h == k.header
        v == IF NonEmptyString(h) THEN Annotated(e, h) ELSE e
        r == OwnRequest(k)
    IN  k.pc # "idle" =>
            /\ PostsOf(c) = 1
            /\ \A i \in 1..Len(fetched) :
                  fetched[i].call = c =>
                      /\ fetched[i].url = "https://tracelink.app/rest" \o r.endpoint
                      /\ fetched[i].headers =
                            HeadersOf(TracelinkClient(config).this, r.opts)
                      /\ fetched[i].body = JSONstringify(r.body)
            /\ k.pc \in {"fetch", "json"} => k.result = NoResult
            /\ (k.pc = "thrown" /\ e = Undefined) =>
                  k.result \in FetchErrors \cup JsonErrors
            /\ (e # Undefined /\ Get(e, "status") = Str("error")) =>
                  k.pc = "thrown" /\ k.result.response = v
            /\ (e # Undefined /\ Get(e, "status") # Str("error")) =>
                  k.pc = "returned" /\ k.result.value = v

\* C19: concurrent calls sharing one client never race on client-internal
\* state: no step taken after construction changes access_token, format or
\* charset, and under every interleaving of the in-flight calls at their await
\* points each call's request (URL, headers, body) and result are those given
\* by its own arguments, the configuration and its own response.
C19_Isolation ==
    /\ [][ctor = "ok" => (client' = client /\ config' = config /\ ctor' = ctor)]_vars
    /\ [](\A c \in DOMAIN calls : Isolated(c))

C19_Witness ==
    /\ calls["c1"].facade = "order.create"
    /\ calls["c2"].facade = "order.create"
    /\ calls["c1"].args # calls["c2"].args
    /\ calls["c1"].header = Str("key-B")
    /\ calls["c2"].header = Null
    /\ calls["c1"].pc = "returned"
    /\ calls["c2"].pc = "thrown"
    /\ Get(calls["c1"].result.value, "_idempotency_key") = Str("key-B")
    /\ calls["c2"].result.kind = "TracelinkError"
    /\ ~HasKey(calls["c2"].result.response, "_cached")
    /\ fetched[1].call = "c2"

\* the envelope call c handed to its caller: returned, or attached to the error
Delivered(c) ==
    IF calls[c].pc = "returned" THEN calls[c].result.value
    ELSE calls[c].result.response

\* C20 as stated: the cache annotation is written only on the success path; the
\* envelope attached to a raised TracelinkError carries no _cached or
\* _idempotency_key field even when the X-ResultFromCache header is present.
C20_Original ==
    \A c \in DOMAIN calls :
        calls[c].result.kind = "TracelinkError" =>
            /\ ~HasKey(calls[c].result.response, "_cached")
            /\ ~HasKey(calls[c].result.response, "_idempotency_key")

\* C20 amended: the cache annotation is written before the status check,
\* whatever the envelope's status: the envelope a call returns and the envelope
\* attached to a raised TracelinkError both carry _cached = true and
\* _idempotency_key = <header value> exactly when the X-ResultFromCache header
\* had a non-empty value, and neither field when it was absent or empty.
C20_Annotation ==
    \A c \in DOMAIN calls :
        Decoded(c) =>
            IF NonEmptyString(calls[c].header)
            THEN /\ Get(Delivered(c), "_cached") = Bool(TRUE)
                 /\ Get(Delivered(c), "_idempotency_key") = calls[c].header
            ELSE /\ ~HasKey(Delivered(c), "_cached")
                 /\ ~HasKey(Delivered(c), "_idempotency_key")

C20_Witness ==
    \E c \in DOMAIN calls :
        /\ calls[c].pc = "thrown"
        /\ Get(calls[c].envelope, "status") = Str("error")
        /\ calls[c].header = Str("key-B")
        /\ Get(calls[c].result.response, "_cached") = Bool(TRUE)
        /\ Get(calls[c].result.response, "_idempotency_key") = Str("key-B")

\* C21 as stated: every constructed client has a non-empty string token, a
\* format in {json, xml} and a charset in {UTF-8, CP850}, in every reachable
\* state and for every config the constructor accepts.
C21_Original ==
    ctor = "ok" =>
        /\ NonEmptyString(client.access_token)
        /\ client.format \in {Str("json"), Str("xml")}
        /\ client.charset \in {Str("UTF-8"), Str("CP850")}

\* C21 amended: every constructed client has, in every reachable state, a
\* non-empty string token equal to the config's, the config's format when that
\* is a non-empty string and 'json' otherwise, and the config's charset when
\* that is a non-empty string and 'UTF-8' otherwise; the constructor does not
\* check either against its enumeration, so format is in {json, xml} and
\* charset in {UTF-8, CP850} only when the config's value is (or is left out).
C21_ClientFields ==
    ctor = "ok" =>
        /\ NonEmptyString(client.access_token)
        /\ client.access_token = Get(config, "access_token")
        /\ client.format =
              IF NonEmptyString(Get(config, "format"))
              THEN Get(config, "format") ELSE Str("json")
        /\ client.charset =
              IF NonEmptyString(Get(config, "charset"))
              THEN Get(config, "charset") ELSE Str("UTF-8")
        /\ Get(config, "format") \in {Undefined, Str(""), Str("json"), Str("xml")} =>
              client.format \in {Str("json"), Str("xml")}
        /\ Get(config, "charset") \in {Undefined, Str(""), Str("UTF-8"), Str("CP850")} =>
              client.charset \in {Str("UTF-8"), Str("CP850")}

C21_Witness ==
    /\ ctor = "ok"
    /\ client.format = Str("yaml")
    /\ client.charset = Str("latin1")
    /\ \E c \in DOMAIN calls : calls[c].pc = "returned"

\* the identifier field the facade of call k merges with data
MergedField(k) ==
    CASE k.facade = "order.update" -> "order_id"
      [] k.facade = "suborder.update" -> "order_sub_id"
      [] k.facade = "suborder.create" -> "parent_order_id"

\* C22: for order.update(order_id, data), suborder.update(order_sub_id, data)
\* and suborder.create(parent_order_id, data) the transmitted object contains
\* every field of data unchanged and nothing else but the identifier field,
\* which equals the positional id when data has no field of that name and
\* data's value when it has one.
C22_MergePrecedence ==
    \A i \in 1..Len(fetched) :
        LET f == fetched[i]
            k == CallOf(f)
            id == k.args[1]
            data == k.args[2]
            sent == Get(k.body, "object")
        IN  k.facade \in {"order.update", "suborder.update", "suborder.create"} =>
                /\ f.body = JSONstringify(k.body)
                /\ Keys(k.body) = <<"object">>
                /\ \A n \in 1..Len(data.o) : Get(sent, data.o[n].k) = data.o[n].v
                /\ \A n \in 1..Len(sent.o) :
                      sent.o[n].k = MergedField(k) \/ HasKey(data, sent.o[n].k)
                /\ Get(sent, MergedField(k)) =
                      IF HasKey(data, MergedField(k))
                      THEN Get(data, MergedField(k)) ELSE id

C22_Witness ==
    \E i \in 1..Len(fetched) :
        /\ CallOf(fetched[i]).facade = "suborder.create"
        /\ CallOf(fetched[i]).args[1] = Num(1040)
        /\ CallOf(fetched[i]).args[2] = IdData
        /\ fetched[i].body = "{\"object\":{\"parent_order_id\":9,\"name\":\"B\","
                                \o "\"order_id\":9,\"order_sub_id\":9}}"

OtherBuild == IF build = "cjs" THEN "esm" ELSE "cjs"

\* C23: the CommonJS and the ESM build are behaviourally equivalent: for every
\* operation and argument both issue the same request and produce the same
\* result or failure. The two sources differ in SuborderClient.list only, so
\* the builds agree when every suborder.list call of the running build did what
\* the other build does with the same options: threw before request() in both
\* or in neither, and otherwise posted the same endpoint and body.
C23_BuildsAgree ==
    \A c \in DOMAIN calls :
        LET k == calls[c]
            o == SuborderClient_list(OtherBuild, k.args[1])
        IN  k.facade = "suborder.list" =>
                /\ (k.result.kind = "ReferenceError") <=> o.threw
                /\ PostsOf(c) = IF o.threw THEN 0 ELSE 1
                /\ ~o.threw =>
                      \A i \in 1..Len(fetched) :
                          fetched[i].call = c =>
                              /\ fetched[i].url = "https://tracelink.app/rest" \o o.endpoint
                              /\ fetched[i].body = JSONstringify(o.body)

====
